---- MODULE Spec2Model ----
(***************************************************************************)
(* Volume provisioning of the postgres-operator pvc package                *)
(* (src/pgo-backrest/pgo-backrest.go, lines 139-362): CreateIfNotExists,   *)
(* CreatePVC, Create, DeleteIfExists, Exists, getMatchLabels and           *)
(* CreateMissingPostgreSQLVolumes, run against a store of persistent       *)
(* volume claims kept by the orchestration API; and the main of            *)
(* pgo-backrest (lines 36-137), which puts a pgbackrest command together   *)
(* and executes it in a pod.                                               *)
(*                                                                         *)
(* Go strings are sequences of one-character strings ("" is << >>), so     *)
(* that strings.Split is computed and not assumed.  A claim name is a      *)
(* sequence of name parts, so that pvcNamePrefix + "-wal" is a             *)
(* concatenation.  A nil error is "nil".                                   *)
(***************************************************************************)
EXTENDS Naturals, Sequences, FiniteSets, TLC

VARIABLES store, last, args, cluster, prov, environ, run

vars == <<store, last, args, cluster, prov, environ, run>>

(***************************************************************************)
(* Bounds and input sets                                                   *)
(***************************************************************************)
\* longest MatchLabels string tried
MaxLabelLen == 3

\* the alphabet of the MatchLabels strings: one letter and the separator
LabelChars == {"k", "="}

LabelStrings == UNION {[1..n -> LabelChars] : n \in 0..MaxLabelLen}

StorageTypes == {"", "emptydir", "existing", "create", "dynamic"}

\* spec.Name: unset, or the name of a volume claim the user made
SpecNames == {<< >>, <<"pv0">>}

StorageSpecs ==
    [StorageType : StorageTypes, Name : SpecNames, MatchLabels : LabelStrings]

pvcNamePrefix == <<"p">>

\* the claim names callers ask for in single calls
RequestedNames == {pvcNamePrefix, <<"pv0">>}

\* values of the removal label on a claim ("" when the label is not set)
LabelValues == {"", "true", "false"}

TablespaceNames == {"ta", "tb"}

Procs == {"r1", "r2"}

(***************************************************************************)
(* strings.Split(s, "=")                                                   *)
(***************************************************************************)
RECURSIVE Split(_)
Split(s) ==
    IF \A i \in 1..Len(s) : s[i] # "="
    THEN <<s>>
    ELSE LET i == CHOOSE i \in 1..Len(s) :
                      s[i] = "=" /\ \A j \in 1..(i - 1) : s[j] # "="
         IN  <<SubSeq(s, 1, i - 1)>> \o Split(SubSeq(s, i + 1, Len(s)))

(***************************************************************************)
(* The orchestration API.  store maps the name of each claim that exists   *)
(* to the value its labels give for the removal label ("" when they give   *)
(* none, as a Go map does).  ok = FALSE is a failure of the call that is   *)
(* neither "already exists" nor "not found".                               *)
(***************************************************************************)
\* clientset.CoreV1().PersistentVolumeClaims(namespace).Create(&newpvc)
apiCreate(st, name, ok) ==
    IF ~ok THEN [err |-> "apierr", store |-> st]
    ELSE IF name \in DOMAIN st THEN [err |-> "AlreadyExists", store |-> st]
    ELSE [err |-> "nil", store |-> (name :> "") @@ st]

IsAlreadyExists(err) == err = "AlreadyExists"

\* kubeapi.GetPVCIfExists: (nil, nil) when the claim is not found
GetPVCIfExists(st, name, ok) ==
    IF ~ok THEN [found |-> FALSE, labels |-> "", err |-> "apierr"]
    ELSE IF name \in DOMAIN st
         THEN [found |-> TRUE, labels |-> st[name], err |-> "nil"]
         ELSE [found |-> FALSE, labels |-> "", err |-> "nil"]

\* kubeapi.DeletePVC
DeletePVC(st, name, ok) ==
    IF ~ok THEN [err |-> "apierr", store |-> st]
    ELSE IF name \notin DOMAIN st THEN [err |-> "NotFound", store |-> st]
    ELSE [err |-> "nil", store |-> [n \in DOMAIN st \ {name} |-> st[n]]]

(***************************************************************************)
(* getMatchLabels: the selector fragment of key and value, "" when the     *)
(* template fails                                                          *)
(***************************************************************************)
getMatchLabels(key, value, ok) ==
    IF ok THEN <<"{">> \o key \o <<":">> \o value \o <<"}">> ELSE << >>

(***************************************************************************)
(* Create.  env holds the outcomes of what Create calls outside this       *)
(* file: selectorOK (the match labels template), renderOK (the claim       *)
(* template and the parse of its output) and createOK (the API call).      *)
(***************************************************************************)
Envs == [selectorOK : BOOLEAN, renderOK : BOOLEAN, createOK : BOOLEAN]

MalformedAlsoDynamic(storageSpec) ==
    /\ storageSpec.MatchLabels # << >>
    /\ Len(Split(storageSpec.MatchLabels)) # 2

MalformedIfFewerThanTwo(storageSpec) ==
    /\ storageSpec.StorageType # "dynamic"
    /\ storageSpec.MatchLabels # << >>
    /\ Len(Split(storageSpec.MatchLabels)) < 2

\* lines 285, 293-295: the static manifest's selector does not split in two
SelectorMalformed(storageSpec) ==
    /\ storageSpec.StorageType # "dynamic"
    /\ storageSpec.MatchLabels # << >>
    /\ Len(Split(storageSpec.MatchLabels)) # 2

\* the calls of getMatchLabels Create makes: line 299
BuilderCalls(storageSpec) ==
    IF /\ storageSpec.StorageType # "dynamic"
       /\ storageSpec.MatchLabels # << >>
       /\ ~SelectorMalformed(storageSpec)
    THEN LET arr == Split(storageSpec.MatchLabels)
         IN  <<[Key |-> arr[1], Value |-> arr[2]]>>
    ELSE << >>

\* pvcFields as handed to the template: lines 276-283, 299
TemplateFields(name, storageSpec, env) ==
    [Name |-> name,
     Template |-> IF storageSpec.StorageType = "dynamic"
                  THEN "PVCStorageClassTemplate" ELSE "PVCTemplate",
     MatchLabels |->
         IF BuilderCalls(storageSpec) = << >>
         THEN storageSpec.MatchLabels
         ELSE getMatchLabels(BuilderCalls(storageSpec)[1].Key,
                             BuilderCalls(storageSpec)[1].Value,
                             env.selectorOK)]

\* Create with the submission of the claim left out
CreateWithoutSubmit(st, name, storageSpec, env) ==
    IF SelectorMalformed(storageSpec)
    THEN [err |-> "malformed", store |-> st, calls |-> << >>,
          builder |-> << >>]
    ELSE [err |-> IF env.renderOK THEN "nil" ELSE "render", store |-> st,
          calls |-> << >>, builder |-> BuilderCalls(storageSpec)]

Create(st, name, storageSpec, env) ==
    IF SelectorMalformed(storageSpec)
    THEN [err |-> "malformed", store |-> st, calls |-> << >>,
          builder |-> << >>]
    ELSE IF ~env.renderOK
    THEN [err |-> "render", store |-> st, calls |-> << >>,
          builder |-> BuilderCalls(storageSpec)]
    ELSE LET r == apiCreate(st, name, env.createOK)
         IN  [err |-> r.err, store |-> r.store,
              calls |-> <<[verb |-> "create",
                           fields |-> TemplateFields(name, storageSpec, env)]>>,
              builder |-> BuilderCalls(storageSpec)]

(***************************************************************************)
(* CreateIfNotExists and CreatePVC.  createErr is what Create returned     *)
(* ("nil" when it was not called).                                         *)
(***************************************************************************)
NoCall(st, claimName) ==
    [claimName |-> claimName, err |-> "nil", createErr |-> "nil",
     store |-> st, calls |-> << >>, builder |-> << >>]

ReturnsEveryError(err) == err # "nil"

NothingIsFatal(err) == FALSE

\* line 235: the errors of Create that CreateIfNotExists returns
IsFatal(err) == err # "nil" /\ ~IsAlreadyExists(err)

EmptyUsesPvcName(spec, pvcName) == pvcName

\* lines 221-227: the result keeps the claim name it was made with
EmptyClaimName(spec, pvcName) == << >>

ExistingUsesPvcName(spec, pvcName) == pvcName

\* line 230
ExistingClaimName(spec, pvcName) == spec.Name

CreateIfNotExists(st, spec, pvcName, env) ==
    CASE spec.StorageType \in {"", "emptydir"} ->
             NoCall(st, EmptyClaimName(spec, pvcName))
      [] spec.StorageType = "existing" ->
             NoCall(st, ExistingClaimName(spec, pvcName))
      [] spec.StorageType \in {"create", "dynamic"} ->
             LET c == Create(st, pvcName, spec, env)
             IN  [claimName |-> pvcName,
                  err |-> IF IsFatal(c.err) THEN c.err ELSE "nil",
                  createErr |-> c.err, store |-> c.store,
                  calls |-> c.calls, builder |-> c.builder]

CreatePVC(st, storageSpec, pvcName, env) ==
    CASE storageSpec.StorageType \in {"", "emptydir"} -> NoCall(st, pvcName)
      [] storageSpec.StorageType = "existing" -> NoCall(st, storageSpec.Name)
      [] storageSpec.StorageType \in {"create", "dynamic"} ->
             LET c == Create(st, pvcName, storageSpec, env)
             IN  [claimName |-> pvcName, err |-> c.err, createErr |-> c.err,
                  store |-> c.store, calls |-> c.calls,
                  builder |-> c.builder]

(***************************************************************************)
(* DeleteIfExists and Exists                                               *)
(***************************************************************************)
DeleteEnvs == [getOK : BOOLEAN, deleteOK : BOOLEAN]

RemovalLabelSet(labels) == labels # ""

\* line 334: pvc.ObjectMeta.Labels[config.LABEL_PGREMOVE] == "true"
RemovalIntended(labels) == labels = "true"

DeleteWithoutClaim(st, name, env) ==
    LET g == GetPVCIfExists(st, name, env.getOK)
        d == DeletePVC(st, name, env.deleteOK)
    IN  [err |-> IF g.found /\ ~RemovalIntended(g.labels)
                 THEN g.err ELSE d.err,
         store |-> IF g.found /\ ~RemovalIntended(g.labels)
                   THEN st ELSE d.store,
         calls |-> IF g.found /\ ~RemovalIntended(g.labels)
                   THEN <<[verb |-> "get", name |-> name]>>
                   ELSE <<[verb |-> "get", name |-> name],
                          [verb |-> "delete", name |-> name]>>,
         found |-> g.found, getErr |-> g.err]

DeleteIfExists(st, name, env) ==
    LET g == GetPVCIfExists(st, name, env.getOK)
        get == <<[verb |-> "get", name |-> name]>>
    IN  IF ~g.found
        THEN [err |-> g.err, store |-> st, calls |-> get, found |-> FALSE,
              getErr |-> g.err]
        ELSE IF RemovalIntended(g.labels)
        THEN LET d == DeletePVC(st, name, env.deleteOK)
             IN  [err |-> d.err, store |-> d.store,
                  calls |-> get \o <<[verb |-> "delete", name |-> name]>>,
                  found |-> TRUE, getErr |-> g.err]
        ELSE [err |-> g.err, store |-> st, calls |-> get, found |-> TRUE,
              getErr |-> g.err]

Exists(st, name, getOK) == GetPVCIfExists(st, name, getOK).found

(***************************************************************************)
(* Single calls.  args are the arguments a caller holds for one logical    *)
(* volume; it may call any number of times with them.  last describes the  *)
(* call that ended last: what it was given, what the store held, what it   *)
(* returned and the API calls it made.                                     *)
(***************************************************************************)
\* the zero value of operator.StorageResult
ZeroResult == [PersistentVolumeClaimName |-> << >>]

Idle ==
    [pc |-> "idle", err |-> "nil", dataVolume |-> ZeroResult,
     walVolume |-> ZeroResult, tablespaceVolumes |-> << >>, todo |-> {},
     trace |-> << >>]

NoCluster ==
    [dataStorageSpec |-> [StorageType |-> "", Name |-> << >>,
                          MatchLabels |-> << >>],
     WALStorage |-> [StorageType |-> "", Name |-> << >>,
                     MatchLabels |-> << >>],
     TablespaceMounts |-> << >>]

NoArgs ==
    [spec |-> [StorageType |-> "", Name |-> << >>, MatchLabels |-> << >>],
     pvcName |-> pvcNamePrefix]

\* pgo-backrest is not run
NoEnviron ==
    [NAMESPACE |-> "", COMMAND |-> "", COMMAND_OPTS |-> "", PODNAME |-> "",
     PGBACKREST_REPO_TYPE |-> "", PGHA_PGBACKREST_LOCAL_S3_STORAGE |-> ""]

NotStarted ==
    [pc |-> "start", exited |-> FALSE, status |-> 0, panicked |-> FALSE,
     cmdStrs |-> << >>, execs |-> << >>]

NoCallYet == [op |-> "none"]

\* the outcome of the call before, when it was the same call
Before(op) ==
    IF last.op = op
    THEN [same |-> TRUE, err |-> last.err, claimName |-> last.claimName,
          created |-> last.changed]
    ELSE [same |-> FALSE, err |-> "nil", claimName |-> << >>,
          created |-> FALSE]

Init ==
    /\ store = << >>
    /\ last = NoCallYet
    /\ \E spec \in StorageSpecs, pvcName \in RequestedNames :
           args = [spec |-> spec, pvcName |-> pvcName]
    /\ cluster = NoCluster
    /\ prov = [p \in Procs |-> Idle]
    /\ environ = NoEnviron
    /\ run = NotStarted

Ensure ==
    \E env \in Envs :
        LET r == CreateIfNotExists(store, args.spec, args.pvcName, env)
        IN  /\ store' = r.store
            /\ last' = [op |-> "CreateIfNotExists", name |-> args.pvcName,
                        present |-> args.pvcName \in DOMAIN store,
                        claimName |-> r.claimName, err |-> r.err,
                        createErr |-> r.createErr,
                        calls |-> r.calls, builder |-> r.builder,
                        changed |-> r.store # store,
                        before |-> Before("CreateIfNotExists")]
            /\ UNCHANGED <<args, cluster, prov, environ, run>>

CallCreatePVC ==
    \E env \in Envs :
        LET r == CreatePVC(store, args.spec, args.pvcName, env)
        IN  /\ store' = r.store
            /\ last' = [op |-> "CreatePVC", name |-> args.pvcName,
                        present |-> args.pvcName \in DOMAIN store,
                        claimName |-> r.claimName, err |-> r.err,
                        createErr |-> r.createErr,
                        calls |-> r.calls, builder |-> r.builder,
                        changed |-> r.store # store,
                        before |-> Before("CreatePVC")]
            /\ UNCHANGED <<args, cluster, prov, environ, run>>

CallDeleteIfExists ==
    \E name \in RequestedNames, env \in DeleteEnvs :
        LET r == DeleteIfExists(store, name, env)
        IN  /\ store' = r.store
            /\ last' = [op |-> "DeleteIfExists", name |-> name,
                        present |-> name \in DOMAIN store,
                        labels |-> IF name \in DOMAIN store
                                   THEN store[name] ELSE "",
                        found |-> r.found, getErr |-> r.getErr,
                        err |-> r.err, calls |-> r.calls,
                        changed |-> r.store # store,
                        others |-> \A n \in DOMAIN store \ {name} :
                                      n \in DOMAIN r.store
                                      /\ r.store[n] = store[n]]
            /\ UNCHANGED <<args, cluster, prov, environ, run>>

CallExists ==
    \E name \in RequestedNames, getOK \in BOOLEAN :
        /\ last' = [op |-> "Exists", name |-> name,
                    present |-> name \in DOMAIN store,
                    result |-> Exists(store, name, getOK)]
        /\ UNCHANGED <<store, args, cluster, prov, environ, run>>

\* another client of the API sets the removal label of a claim
LabelPVC ==
    \E name \in DOMAIN store, v \in LabelValues :
        /\ store' = [store EXCEPT ![name] = v]
        /\ last' = [op |-> "LabelPVC", name |-> name]
        /\ UNCHANGED <<args, cluster, prov, environ, run>>

Next ==
    \/ Ensure
    \/ CallCreatePVC
    \/ CallDeleteIfExists
    \/ CallExists
    \/ LabelPVC

Spec == Init /\ [][Next]_vars

(***************************************************************************)
(* CreateMissingPostgreSQLVolumes.  A pass p takes one step for each call  *)
(* of CreateIfNotExists it makes or skips: the data volume, the WAL        *)
(* volume, then one tablespace of the map at a time, in an order the Go    *)
(* runtime chooses.  prov[p] holds the named results and err of the pass,  *)
(* the tablespaces the range has still to visit, and trace: the calls of   *)
(* CreateIfNotExists made so far, in order.  A pass that has returned      *)
(* keeps what it returned until p calls again.                             *)
(***************************************************************************)
\* the specs of a cluster's volumes: one of each storage type, and a
\* "create" spec that Create refuses
ProvisionSpecs ==
    {s \in StorageSpecs :
        /\ s.Name = <<"pv0">>
        /\ \/ s.MatchLabels = << >>
           \/ s.StorageType = "create" /\ s.MatchLabels = <<"k">>}

Clusters ==
    [dataStorageSpec : ProvisionSpecs,
     WALStorage : ProvisionSpecs,
     TablespaceMounts :
         UNION {[T -> ProvisionSpecs] : T \in SUBSET TablespaceNames}]

\* the reconciliation passes of SpecProvision
Provisioners == {"r1"}

GetTablespacePVCName(prefix, tablespaceName) ==
    prefix \o <<"-tablespace-", tablespaceName>>

StorageResult(r) == [PersistentVolumeClaimName |-> r.claimName]

Attempt(kind, tablespace, pvcName, r) ==
    [kind |-> kind, tablespace |-> tablespace, name |-> pvcName,
     err |-> r.err, createErr |-> r.createErr, calls |-> r.calls]

WALAlways(err) == TRUE

\* line 201
WALGuard(err) == err = "nil"

TablespaceAlways(err) == TRUE

\* line 208
TablespaceGuard(err) == err = "nil"

InitProvision ==
    /\ store = << >>
    /\ last = NoCallYet
    /\ args = NoArgs
    /\ cluster \in Clusters
    /\ prov = [p \in Procs |-> Idle]
    /\ environ = NoEnviron
    /\ run = NotStarted

\* lines 198-199
ProvisionData(p) ==
    /\ prov[p].pc \in {"idle", "done"}
    /\ \E env \in Envs :
           LET r == CreateIfNotExists(store, cluster.dataStorageSpec,
                                      pvcNamePrefix, env)
           IN  /\ store' = r.store
               /\ prov' = [prov EXCEPT ![p] =
                      [pc |-> "wal", err |-> r.err,
                       dataVolume |-> StorageResult(r),
                       walVolume |-> ZeroResult,
                       tablespaceVolumes |-> << >>, todo |-> {},
                       trace |-> <<Attempt("data", "", pvcNamePrefix, r)>>]]
    /\ UNCHANGED <<last, args, cluster, environ, run>>

\* lines 201-206
ProvisionWAL(p) ==
    /\ prov[p].pc = "wal"
    /\ IF WALGuard(prov[p].err)
       THEN \E env \in Envs :
                LET pvcName == pvcNamePrefix \o <<"-wal">>
                    r == CreateIfNotExists(store, cluster.WALStorage,
                                           pvcName, env)
                IN  /\ store' = r.store
                    /\ prov' = [prov EXCEPT
                           ![p].pc = "tablespaces",
                           ![p].err = r.err,
                           ![p].walVolume = StorageResult(r),
                           ![p].todo = DOMAIN cluster.TablespaceMounts,
                           ![p].trace =
                               Append(@, Attempt("wal", "", pvcName, r))]
       ELSE /\ store' = store
            /\ prov' = [prov EXCEPT
                   ![p].pc = "tablespaces",
                   ![p].todo = DOMAIN cluster.TablespaceMounts]
    /\ UNCHANGED <<last, args, cluster, environ, run>>

\* lines 207-213: one iteration of the range over the map
ProvisionTablespace(p) ==
    /\ prov[p].pc = "tablespaces"
    /\ \E tablespaceName \in prov[p].todo :
           IF TablespaceGuard(prov[p].err)
           THEN \E env \in Envs :
                    LET pvcName == GetTablespacePVCName(pvcNamePrefix,
                                                        tablespaceName)
                        r == CreateIfNotExists(
                                 store,
                                 cluster.TablespaceMounts[tablespaceName],
                                 pvcName, env)
                    IN  /\ store' = r.store
                        /\ prov' = [prov EXCEPT
                               ![p].err = r.err,
                               ![p].tablespaceVolumes =
                                   (tablespaceName :> StorageResult(r)) @@ @,
                               ![p].todo = @ \ {tablespaceName},
                               ![p].trace =
                                   Append(@, Attempt("tablespace",
                                                     tablespaceName,
                                                     pvcName, r))]
           ELSE /\ store' = store
                /\ prov' = [prov EXCEPT ![p].todo = @ \ {tablespaceName}]
    /\ UNCHANGED <<last, args, cluster, environ, run>>

\* a return that, on an error, deletes the claims the pass asked for
ProvisionReturnRollback(p) ==
    /\ prov[p].pc = "tablespaces"
    /\ prov[p].todo = {}
    /\ prov' = [prov EXCEPT ![p].pc = "done"]
    /\ store' =
           IF prov[p].err = "nil" THEN store
           ELSE [n \in DOMAIN store \
                        {prov[p].trace[i].name :
                             i \in 1..Len(prov[p].trace)} |-> store[n]]
    /\ UNCHANGED <<last, args, cluster, environ, run>>

\* a return that gives every declared tablespace an entry
ProvisionReturnFilled(p) ==
    /\ prov[p].pc = "tablespaces"
    /\ prov[p].todo = {}
    /\ prov' = [prov EXCEPT
           ![p].pc = "done",
           ![p].tablespaceVolumes =
               [t \in DOMAIN cluster.TablespaceMounts |->
                   IF t \in DOMAIN @ THEN @[t] ELSE ZeroResult]]
    /\ UNCHANGED <<store, last, args, cluster, environ, run>>

\* line 215
ProvisionReturn(p) ==
    /\ prov[p].pc = "tablespaces"
    /\ prov[p].todo = {}
    /\ prov' = [prov EXCEPT ![p].pc = "done"]
    /\ UNCHANGED <<store, last, args, cluster, environ, run>>

NextProvision ==
    \E p \in Provisioners :
        \/ ProvisionData(p)
        \/ ProvisionWAL(p)
        \/ ProvisionTablespace(p)
        \/ ProvisionReturn(p)

SpecProvision == InitProvision /\ [][NextProvision]_vars

(***************************************************************************)
(* Two passes for the same cluster, each made once, their calls of         *)
(* CreateIfNotExists interleaved in any order against the one store.       *)
(***************************************************************************)
\* a spec that creates, one that Create refuses and one that asks nothing
ConcurrentSpecs ==
    {s \in ProvisionSpecs :
        \/ s.StorageType \in {"dynamic", "emptydir"}
        \/ s.MatchLabels = <<"k">>}

ConcurrentClusters ==
    [dataStorageSpec : ConcurrentSpecs,
     WALStorage : ConcurrentSpecs,
     TablespaceMounts :
         UNION {[T -> ConcurrentSpecs] : T \in SUBSET TablespaceNames}]

InitConcurrent ==
    /\ store = << >>
    /\ last = NoCallYet
    /\ args = NoArgs
    /\ cluster \in ConcurrentClusters
    /\ prov = [p \in Procs |-> Idle]
    /\ environ = NoEnviron
    /\ run = NotStarted

\* the one call of pass p
ProvisionOnce(p) ==
    /\ prov[p].pc = "idle"
    /\ ProvisionData(p)

NextConcurrent ==
    \E p \in Procs :
        \/ ProvisionOnce(p)
        \/ ProvisionWAL(p)
        \/ ProvisionTablespace(p)
        \/ ProvisionReturn(p)

SpecConcurrent == InitConcurrent /\ [][NextConcurrent]_vars

(***************************************************************************)
(* pgo-backrest main (lines 36-137).  environ is the environment the       *)
(* program is started in; run is the position of main, the command words   *)
(* it has put together, the exec calls it has made and how it ended.  The  *)
(* words of a command are TLA+ strings, joined as strings.Join joins them. *)
(***************************************************************************)
Namespaces == {"", "pgo"}

Commands == {"", "stanza-create", "info", "backup", "restore"}

CommandOpts == {"", "--stanza=db"}

PodNames == {"", "pod-0"}

RepoTypes == {"", "posix", "s3"}

LocalS3Values == {"", "true", "1", "false", "yes"}

Environs ==
    [NAMESPACE : Namespaces, COMMAND : Commands, COMMAND_OPTS : CommandOpts,
     PODNAME : PodNames, PGBACKREST_REPO_TYPE : RepoTypes,
     PGHA_PGBACKREST_LOCAL_S3_STORAGE : LocalS3Values]

\* lines 28-34
backrestCommand == "pgbackrest"

backrestBackupCommand == "backup"

backrestInfoCommand == "info"

backrestStanzaCreateCommand == "stanza-create"

containername == "database"

repoTypeFlagS3 == "--repo-type=s3"

\* the task names of package crv1
PgtaskBackrestStanzaCreate == "stanza-create"

PgtaskBackrestInfo == "info"

PgtaskBackrestBackup == "backup"

\* the status of os.Exit(2), and of a Go program that ends in a panic
exitStatus == 2

\* strconv.ParseBool, its error discarded (line 77)
ParseBool(str) == str \in {"1", "t", "T", "TRUE", "true", "True"}

RECURSIVE Join(_, _)
\* strings.Join
Join(elems, sep) ==
    IF elems = << >> THEN ""
    ELSE IF Len(elems) = 1 THEN elems[1]
    ELSE elems[1] \o sep \o Join(Tail(elems), sep)

\* lines 89-108: the words of the command, << >> for an unsupported COMMAND
CommandWords(COMMAND, COMMAND_OPTS) ==
    CASE COMMAND = PgtaskBackrestStanzaCreate ->
             <<backrestCommand, backrestStanzaCreateCommand, COMMAND_OPTS>>
      [] COMMAND = PgtaskBackrestInfo ->
             <<backrestCommand, backrestInfoCommand, COMMAND_OPTS>>
      [] COMMAND = PgtaskBackrestBackup ->
             <<backrestCommand, backrestBackupCommand, COMMAND_OPTS>>
      [] OTHER -> << >>

RepoTypeFirst(cmdStrs, localS3, REPO_TYPE) ==
    IF REPO_TYPE = "s3"
    THEN Append(cmdStrs, repoTypeFlagS3)
    ELSE IF localS3
    THEN cmdStrs \o <<"&&", Join(cmdStrs, " "), repoTypeFlagS3>>
    ELSE cmdStrs

\* lines 110-119; firstCmd keeps the words cmdStrs had at line 111
RepoTypeWords(cmdStrs, localS3, REPO_TYPE) ==
    IF localS3
    THEN LET firstCmd == cmdStrs
         IN  Append(Append(Append(cmdStrs, "&&"), Join(firstCmd, " ")),
                    repoTypeFlagS3)
    ELSE IF REPO_TYPE = "s3"
    THEN Append(cmdStrs, repoTypeFlagS3)
    ELSE cmdStrs

Exit(status) ==
    [run EXCEPT !.pc = "exited", !.exited = TRUE, !.status = status]

InitMain ==
    /\ store = << >>
    /\ last = NoCallYet
    /\ args = NoArgs
    /\ cluster = NoCluster
    /\ prov = [p \in Procs |-> Idle]
    /\ environ \in Environs
    /\ run = NotStarted

\* lines 47-69
MainEnvironment ==
    /\ run.pc = "start"
    /\ run' = IF \/ environ.NAMESPACE = ""
                 \/ environ.COMMAND = ""
                 \/ environ.PODNAME = ""
              THEN Exit(exitStatus)
              ELSE [run EXCEPT !.pc = "client"]
    /\ UNCHANGED <<store, last, args, cluster, prov, environ>>

\* lines 80-83
MainNewKubeClient ==
    /\ run.pc = "client"
    /\ \E ok \in BOOLEAN :
           run' = IF ok
                  THEN [run EXCEPT !.pc = "command"]
                  ELSE [Exit(exitStatus) EXCEPT !.panicked = TRUE]
    /\ UNCHANGED <<store, last, args, cluster, prov, environ>>

\* lines 85-119
MainCommand ==
    /\ run.pc = "command"
    /\ LET cmdStrs == CommandWords(environ.COMMAND, environ.COMMAND_OPTS)
           localS3 == ParseBool(environ.PGHA_PGBACKREST_LOCAL_S3_STORAGE)
       IN  run' = IF cmdStrs = << >>
                  THEN Exit(exitStatus)
                  ELSE [run EXCEPT
                           !.pc = "exec",
                           !.cmdStrs =
                               RepoTypeWords(cmdStrs, localS3,
                                             environ.PGBACKREST_REPO_TYPE)]
    /\ UNCHANGED <<store, last, args, cluster, prov, environ>>

\* lines 121-136: the command goes to bash in the pod on its standard input
MainExec ==
    /\ run.pc = "exec"
    /\ \E ok \in BOOLEAN :
           LET call == [container |-> containername,
                        pod |-> environ.PODNAME,
                        namespace |-> environ.NAMESPACE,
                        stdin |-> Join(run.cmdStrs, " ")]
           IN  run' = [run EXCEPT
                          !.pc = "exited", !.exited = TRUE,
                          !.status = IF ok THEN 0 ELSE exitStatus,
                          !.execs = Append(@, call)]
    /\ UNCHANGED <<store, last, args, cluster, prov, environ>>

NextMain ==
    \/ MainEnvironment
    \/ MainNewKubeClient
    \/ MainCommand
    \/ MainExec

SpecMain == InitMain /\ [][NextMain]_vars

(***************************************************************************)
(* Properties of single calls, under Spec                                  *)
(***************************************************************************)
IsEnsure == last.op = "CreateIfNotExists"

CreateCalls(calls) == Len(SelectSeq(calls, LAMBDA c : c.verb = "create"))

DeleteCalls(calls) == Len(SelectSeq(calls, LAMBDA c : c.verb = "delete"))

GetCalls(calls) == Len(SelectSeq(calls, LAMBDA c : c.verb = "get"))

Creating == args.spec.StorageType \in {"create", "dynamic"}

\* the selector is given and does not split on "=" into exactly two tokens
NotTwoTokens ==
    /\ args.spec.MatchLabels # << >>
    /\ Len(Split(args.spec.MatchLabels)) # 2

\* the templates or the API failed for a reason of their own
Failed(err) == err \in {"render", "apierr"}

\* C1 as stated (failures of the templates and of the API set aside): for
\* every create or dynamic spec and every requested name the store does not
\* hold, one CreateIfNotExists issues exactly one create call and returns
\* the requested name with no error.
C1_Original ==
    (IsEnsure /\ Creating /\ ~last.present /\ ~Failed(last.err))
        => /\ CreateCalls(last.calls) = 1
           /\ last.claimName = last.name
           /\ last.err = "nil"

\* C1, amended: for every create or dynamic spec and every requested name
\* the store does not hold, CreateIfNotExists returns the requested name and
\* issues at most one create call; unless the spec is a "create" spec whose
\* selector does not split in two, or a template or the API fails, it
\* issues exactly one create call, returns no error and the claim is in the
\* store afterwards.
C1_CreatesOnce ==
    (IsEnsure /\ Creating /\ ~last.present)
        => /\ last.claimName = last.name
           /\ CreateCalls(last.calls) <= 1
           /\ (/\ args.spec.StorageType = "dynamic" \/ ~NotTwoTokens
               /\ ~Failed(last.err))
                  => /\ CreateCalls(last.calls) = 1
                     /\ Len(last.calls) = 1
                     /\ last.err = "nil"
                     /\ last.name \in DOMAIN store

C1_Witness ==
    /\ IsEnsure /\ ~last.present
    /\ args.spec.StorageType = "create"
    /\ args.spec.MatchLabels = <<"k", "=", "k">>
    /\ CreateCalls(last.calls) = 1
    /\ last.err = "nil"
    /\ last.name \in DOMAIN store

\* C2: a second CreateIfNotExists with the same arguments, against the store
\* that holds the claim the first one created, whose create call reports
\* "already exists": both calls return no error and the same claim name,
\* the second returns nothing of "already exists", and the store still
\* holds the claim, unchanged.
C2_Idempotent ==
    (/\ IsEnsure /\ Creating
     /\ last.before.same /\ last.before.created
     /\ last.createErr = "AlreadyExists")
        => /\ last.before.err = "nil"
           /\ last.err = "nil"
           /\ last.claimName = last.before.claimName
           /\ last.claimName = last.name
           /\ CreateCalls(last.calls) = 1
           /\ ~last.changed
           /\ last.name \in DOMAIN store

\* the store that holds the claim always answers a create that reaches it
\* with "already exists" or fails: the second call never creates
C2_Witness ==
    /\ IsEnsure /\ args.spec.StorageType = "dynamic"
    /\ last.before.same /\ last.before.created
    /\ last.createErr = "AlreadyExists"
    /\ last.err = "nil"

\* C3: for storageType "" or "emptydir", CreateIfNotExists returns an empty
\* claim name and no error and calls nothing of the API, whatever the other
\* fields of the spec and the requested name.
C3_EmptyIsNoOp ==
    (IsEnsure /\ args.spec.StorageType \in {"", "emptydir"})
        => /\ last.claimName = << >>
           /\ last.err = "nil"
           /\ last.calls = << >>
           /\ ~last.changed

C3_Witness ==
    /\ IsEnsure /\ args.spec.StorageType = "emptydir"
    /\ args.spec.Name = <<"pv0">>
    /\ args.spec.MatchLabels = <<"k">>
    /\ last.claimName = << >>

\* C4: for storageType "existing", CreateIfNotExists returns spec.Name (not
\* the requested name) and no error, and makes no call of the API, no
\* create and no lookup, whether the store holds that claim or not.
C4_ExistingByName ==
    (IsEnsure /\ args.spec.StorageType = "existing")
        => /\ last.claimName = args.spec.Name
           /\ last.err = "nil"
           /\ last.calls = << >>
           /\ ~last.changed

C4_Witness ==
    /\ IsEnsure /\ args.spec.StorageType = "existing"
    /\ args.spec.Name = <<"pv0">> /\ args.pvcName = pvcNamePrefix
    /\ <<"pv0">> \notin DOMAIN store
    /\ last.claimName = <<"pv0">>

\* C5: for a "create" spec whose selector is given and does not split on "="
\* into exactly two tokens, CreateIfNotExists returns the malformed
\* selector error, calls nothing of the API and leaves the store as it was.
C5_MalformedStatic ==
    (IsEnsure /\ args.spec.StorageType = "create" /\ NotTwoTokens)
        => /\ last.err = "malformed"
           /\ last.calls = << >>
           /\ ~last.changed

C5_Witness ==
    /\ IsEnsure /\ args.spec.StorageType = "create"
    /\ args.spec.MatchLabels = <<"k", "=", "=">>
    /\ last.err = "malformed"

C7_EmptyTokenMalformed ==
    /\ (/\ IsEnsure /\ args.spec.StorageType = "create"
         /\ args.spec.MatchLabels # << >>
         /\ Len(Split(args.spec.MatchLabels)) = 2
         /\ << >> \in {Split(args.spec.MatchLabels)[1],
                       Split(args.spec.MatchLabels)[2]})
            => /\ last.err = "malformed"
               /\ CreateCalls(last.calls) = 0
    /\ IsEnsure
            => \A i \in 1..Len(last.builder) :
                   /\ last.builder[i].Key # << >>
                   /\ last.builder[i].Value # << >>

\* C9: for a claim that is in the store and that the lookup returns,
\* DeleteIfExists issues exactly one delete call when the removal label is
\* "true"; when the label is not set or has another value it issues no
\* delete call, returns no error and leaves the claim in the store.
C9_DeletionGate ==
    (last.op = "DeleteIfExists" /\ last.present /\ last.found)
        => IF last.labels = "true"
           THEN DeleteCalls(last.calls) = 1
           ELSE /\ DeleteCalls(last.calls) = 0
                /\ last.err = "nil"
                /\ ~last.changed
                /\ last.name \in DOMAIN store
                /\ store[last.name] = last.labels

C9_Witness ==
    /\ last.op = "DeleteIfExists" /\ last.present /\ last.found
    /\ last.labels = "true"
    /\ DeleteCalls(last.calls) = 1
    /\ last.name \notin DOMAIN store

C9_WitnessKept ==
    /\ last.op = "DeleteIfExists" /\ last.present /\ last.found
    /\ last.labels = "false"
    /\ last.name \in DOMAIN store

(***************************************************************************)
(* Properties of CreateMissingPostgreSQLVolumes, under SpecProvision       *)
(***************************************************************************)
\* C8: once a step of a pass has failed, the pass makes no later call of
\* CreateIfNotExists (so no further create call); and a pass whose data
\* step failed returns having made that one call only, with the zero
\* value for the WAL result and no tablespace result.
C8_ShortCircuit ==
    \A p \in Provisioners :
        LET t == prov[p].trace
        IN  /\ \A i \in 1..Len(t) : t[i].err # "nil" => i = Len(t)
            /\ (Len(t) > 0 /\ t[Len(t)].err # "nil")
                   => prov[p].err = t[Len(t)].err
            /\ (prov[p].pc = "done" /\ t[1].err # "nil")
                   => /\ Len(t) = 1
                      /\ prov[p].walVolume = ZeroResult
                      /\ DOMAIN prov[p].tablespaceVolumes = {}

C8_Witness ==
    /\ prov["r1"].pc = "done"
    /\ prov["r1"].trace[1].err = "apierr"
    /\ cluster.WALStorage.StorageType = "create"
    /\ cluster.WALStorage.MatchLabels = << >>
    /\ DOMAIN cluster.TablespaceMounts = TablespaceNames
    /\ \A t \in TablespaceNames :
           cluster.TablespaceMounts[t].StorageType = "dynamic"
    /\ DOMAIN store = {}

\* C10: within a pass the first call of CreateIfNotExists is the one for the
\* data volume, the WAL volume is attempted only second and only when the
\* data step returned no error, and a tablespace is attempted only after
\* the WAL step: the calls of a pass are data, then WAL, then tablespaces.
C10_StepOrder ==
    \A p \in Provisioners :
        LET t == prov[p].trace
        IN  /\ prov[p].pc # "idle" => (Len(t) >= 1 /\ t[1].kind = "data")
            /\ \A i \in 1..Len(t) :
                   /\ t[i].kind = "data" => i = 1
                   /\ t[i].kind = "wal" => (i = 2 /\ t[1].err = "nil")
                   /\ t[i].kind = "tablespace"
                          => /\ i >= 3
                             /\ t[2].kind = "wal"
                             /\ prov[p].pc \in {"tablespaces", "done"}
            /\ \A i, j \in 1..Len(t) :
                   (/\ CreateCalls(t[i].calls) > 0
                    /\ CreateCalls(t[j].calls) > 0
                    /\ i < j)
                      => /\ t[j].kind # "data"
                         /\ t[j].kind = "wal" => t[i].kind = "data"

C10_Witness ==
    /\ prov["r1"].pc = "done"
    /\ Len(prov["r1"].trace) = 4
    /\ \A i \in 1..4 : CreateCalls(prov["r1"].trace[i].calls) = 1
    /\ prov["r1"].err = "nil"

(***************************************************************************)
(* Properties of two passes for one cluster, under SpecConcurrent          *)
(***************************************************************************)
\* the tablespaces pass p attempted, in the order of its calls
TablespaceOrder(p) ==
    LET t == SelectSeq(prov[p].trace, LAMBDA a : a.kind = "tablespace")
    IN  [i \in 1..Len(t) |-> t[i].tablespace]

\* no call of pass p met a failure of a template or of the API
NoFault(p) ==
    \A i \in 1..Len(prov[p].trace) : ~Failed(prov[p].trace[i].err)

\* C11: two passes with the same inputs, against the same store (it is empty
\* from the first call to the last return, so neither pass changed it) and
\* with the same behaviour of the API (no call failed on its own), attempt
\* the tablespaces in the same order and return tablespace results for the
\* same tablespaces.
C11_FixedOrder ==
    (/\ \A p \in Procs : prov[p].pc = "done" /\ NoFault(p)
     /\ DOMAIN store = {})
        => /\ TablespaceOrder("r1") = TablespaceOrder("r2")
           /\ DOMAIN prov["r1"].tablespaceVolumes
                  = DOMAIN prov["r2"].tablespaceVolumes

(***************************************************************************)
(* More properties of single calls, under Spec                             *)
(***************************************************************************)
\* C12 as stated: in every result of CreateIfNotExists the claim name is
\* non-empty if and only if the storage type is "existing", "create" or
\* "dynamic".
C12_Original ==
    IsEnsure
        => (last.claimName # << >>
               <=> args.spec.StorageType \in {"existing", "create", "dynamic"})

\* C12, amended: in every result of CreateIfNotExists, returned with an
\* error or without, the claim name is "" for "" and "emptydir", spec.Name
\* for "existing" and the requested name for "create" and "dynamic"; so,
\* the requested name being non-empty, it is non-empty if and only if the
\* type is "create" or "dynamic", or "existing" with a non-empty spec.Name.
C12_ClaimNameByType ==
    IsEnsure
        => /\ last.claimName =
                  CASE args.spec.StorageType \in {"", "emptydir"} -> << >>
                    [] args.spec.StorageType = "existing" -> args.spec.Name
                    [] args.spec.StorageType \in {"create", "dynamic"}
                           -> last.name
           /\ last.claimName # << >>
                  <=> \/ args.spec.StorageType \in {"create", "dynamic"}
                      \/ /\ args.spec.StorageType = "existing"
                         /\ args.spec.Name # << >>

C12_Witness ==
    /\ IsEnsure
    /\ args.spec.StorageType = "existing"
    /\ args.spec.Name = << >>
    /\ last.claimName = << >>
    /\ last.err = "nil"

(***************************************************************************)
(* More properties of CreateMissingPostgreSQLVolumes, under SpecProvision  *)
(***************************************************************************)
\* the tablespaces a pass called CreateIfNotExists for
Attempted(p) ==
    {prov[p].trace[i].tablespace :
        i \in {j \in 1..Len(prov[p].trace) :
                  prov[p].trace[j].kind = "tablespace"}}

\* C13 as stated: in every returned set, with an error or without, the keys
\* of the tablespace results are the tablespaces the cluster declares.
C13_Original ==
    \A p \in Provisioners :
        prov[p].pc = "done"
            => DOMAIN prov[p].tablespaceVolumes
                   = DOMAIN cluster.TablespaceMounts

\* C13, amended: in every returned set the keys of the tablespace results
\* are the tablespaces the pass attempted, a subset of the declared ones;
\* they are all the declared ones when the pass returns no error, and when
\* it returns an error the tablespaces skipped after the failing step have
\* no entry (none at all when the data or the WAL step failed).
C13_KeysAreAttempted ==
    \A p \in Provisioners :
        prov[p].pc = "done"
            => /\ DOMAIN prov[p].tablespaceVolumes = Attempted(p)
               /\ Attempted(p) \subseteq DOMAIN cluster.TablespaceMounts
               /\ prov[p].err = "nil"
                      => Attempted(p) = DOMAIN cluster.TablespaceMounts
               /\ (\E i \in 1..Len(prov[p].trace) :
                       /\ prov[p].trace[i].err # "nil"
                       /\ prov[p].trace[i].kind \in {"data", "wal"})
                      => Attempted(p) = {}

C13_Witness ==
    /\ prov["r1"].pc = "done"
    /\ prov["r1"].err # "nil"
    /\ DOMAIN cluster.TablespaceMounts = TablespaceNames
    /\ DOMAIN prov["r1"].tablespaceVolumes = {"tb"}

(***************************************************************************)
(* More properties of two passes for one cluster, under SpecConcurrent     *)
(***************************************************************************)
\* the logical volumes of the cluster: spec and claim name asked for
LogicalVolumes ==
    {[spec |-> cluster.dataStorageSpec, name |-> pvcNamePrefix],
     [spec |-> cluster.WALStorage, name |-> pvcNamePrefix \o <<"-wal">>]}
    \cup {[spec |-> cluster.TablespaceMounts[t],
           name |-> GetTablespacePVCName(pvcNamePrefix, t)] :
             t \in DOMAIN cluster.TablespaceMounts}

\* the names of the claims the cluster's specs call for
ClaimsCalledFor ==
    {v.name : v \in {w \in LogicalVolumes :
                        w.spec.StorageType \in {"create", "dynamic"}}}

\* no "create" spec of the cluster has a selector that does not split in two
SelectorsSplitInTwo ==
    \A v \in LogicalVolumes :
        ~(/\ v.spec.StorageType = "create"
          /\ v.spec.MatchLabels # << >>
          /\ Len(Split(v.spec.MatchLabels)) # 2)

\* C14 as stated: two passes for the same cluster, their calls interleaved
\* in any order, no call failing on its own: both return no error and the
\* store ends with one claim for each create or dynamic volume.
C14_Original ==
    (\A p \in Procs : prov[p].pc = "done" /\ NoFault(p))
        => /\ \A p \in Procs : prov[p].err = "nil"
           /\ DOMAIN store = ClaimsCalledFor

\* C14, amended: the same, for a cluster none of whose "create" specs has a
\* selector that does not split in two (such a cluster makes every pass
\* fail, alone or not).
C14_ConcurrentPasses ==
    (/\ \A p \in Procs : prov[p].pc = "done" /\ NoFault(p)
     /\ SelectorsSplitInTwo)
        => /\ \A p \in Procs : prov[p].err = "nil"
           /\ DOMAIN store = ClaimsCalledFor

\* both passes issued the four create calls, in different orders
C14_Witness ==
    /\ \A p \in Procs :
           /\ prov[p].pc = "done" /\ prov[p].err = "nil"
           /\ Len(prov[p].trace) = 4
           /\ \A i \in 1..4 : CreateCalls(prov[p].trace[i].calls) = 1
    /\ TablespaceOrder("r1") # TablespaceOrder("r2")
    /\ Cardinality(DOMAIN store) = 4

\* the claims the calls of pass p, but for the last, asked the API for and
\* got or found there
EarlierClaims(p) ==
    {prov[p].trace[i].name :
        i \in {j \in 1..(Len(prov[p].trace) - 1) :
                  /\ CreateCalls(prov[p].trace[j].calls) = 1
                  /\ prov[p].trace[j].err = "nil"}}

\* C15: no step of a pass takes a claim out of the store or changes one
\* (the pass issues no delete call), so the claims only grow during a pass;
\* and when a pass returns an error, the claims its earlier steps created
\* are in the store on return.
C15_NoRollback ==
    [][/\ \A n \in DOMAIN store : n \in DOMAIN store' /\ store'[n] = store[n]
       /\ \A p \in Provisioners :
              /\ \A i \in 1..Len(prov'[p].trace) :
                     DeleteCalls(prov'[p].trace[i].calls) = 0
              /\ (prov'[p].pc = "done" /\ prov'[p].err # "nil")
                     => EarlierClaims(p)' \subseteq DOMAIN store']_vars

C15_Witness ==
    /\ prov["r1"].pc = "done"
    /\ prov["r1"].err = "apierr"
    /\ Len(prov["r1"].trace) = 3
    /\ EarlierClaims("r1") =
           {pvcNamePrefix, pvcNamePrefix \o <<"-wal">>}
    /\ EarlierClaims("r1") \subseteq DOMAIN store

\* the steps of pass p that returned an error
Failing(p) ==
    {i \in 1..Len(prov[p].trace) : prov[p].trace[i].err # "nil"}

\* C16: the error of a pass is the error its first failing step returned,
\* as it was returned, and it is nil if and only if no step failed; and a
\* step returns an error of Create other than "already exists" as Create
\* returned it, having issued one create call at most.
C16_ErrorPropagation ==
    \A p \in Provisioners :
        LET t == prov[p].trace
        IN  /\ prov[p].err = "nil" <=> Failing(p) = {}
            /\ Failing(p) # {}
                   => \E i \in Failing(p) :
                          /\ \A j \in Failing(p) : i <= j
                          /\ prov[p].err = t[i].err
            /\ \A i \in 1..Len(t) :
                   /\ CreateCalls(t[i].calls) <= 1
                   /\ t[i].err = IF t[i].createErr = "AlreadyExists"
                                 THEN "nil" ELSE t[i].createErr

C16_Witness ==
    /\ prov["r1"].pc = "done"
    /\ prov["r1"].err = "apierr"
    /\ Failing("r1") = {2}
    /\ prov["r1"].trace[2].createErr = "apierr"
    /\ DOMAIN cluster.TablespaceMounts = TablespaceNames

\* C17: a DeleteIfExists whose lookup returns no claim issues no delete call
\* and leaves the store as it was; it returns what the lookup returned as
\* its error: nil when the claim is not found, the lookup's error when the
\* lookup failed.
C17_NothingToDelete ==
    (last.op = "DeleteIfExists" /\ ~last.found)
        => /\ DeleteCalls(last.calls) = 0
           /\ GetCalls(last.calls) = 1
           /\ ~last.changed
           /\ last.others
           /\ last.err = last.getErr
           /\ last.getErr = "nil" => (~last.present /\ last.err = "nil")
           /\ last.present => last.err = "apierr"

\* the lookup failed for a claim that is in the store and marked for removal
C17_Witness ==
    /\ last.op = "DeleteIfExists"
    /\ ~last.found
    /\ last.present
    /\ last.labels = "true"
    /\ last.err = "apierr"
    /\ last.name \in DOMAIN store

\* the claim is not in the store and the lookup says so
C17_WitnessNotFound ==
    /\ last.op = "DeleteIfExists"
    /\ ~last.found
    /\ ~last.present
    /\ last.err = "nil"

\* a storage spec for which a claim is to be created
Provisions(storageSpec) == storageSpec.StorageType \in {"create", "dynamic"}

\* C18: when a pass has returned no error, every logical volume whose spec
\* is "create" or "dynamic" has a claim in the store under the claim name
\* returned for it: pvcNamePrefix for the data volume, pvcNamePrefix
\* followed by "-wal" for the WAL volume, and the name derived from the
\* prefix and the tablespace name for each tablespace.
C18_ProvisionPostcondition ==
    \A p \in Provisioners :
        (prov[p].pc = "done" /\ prov[p].err = "nil")
            => /\ Provisions(cluster.dataStorageSpec)
                      => /\ prov[p].dataVolume.PersistentVolumeClaimName
                                = pvcNamePrefix
                         /\ pvcNamePrefix \in DOMAIN store
               /\ Provisions(cluster.WALStorage)
                      => /\ prov[p].walVolume.PersistentVolumeClaimName
                                = pvcNamePrefix \o <<"-wal">>
                         /\ pvcNamePrefix \o <<"-wal">> \in DOMAIN store
               /\ \A t \in DOMAIN cluster.TablespaceMounts :
                      Provisions(cluster.TablespaceMounts[t])
                          => /\ t \in DOMAIN prov[p].tablespaceVolumes
                             /\ prov[p].tablespaceVolumes[t]
                                        .PersistentVolumeClaimName
                                    = GetTablespacePVCName(pvcNamePrefix, t)
                             /\ GetTablespacePVCName(pvcNamePrefix, t)
                                    \in DOMAIN store

C18_Witness ==
    /\ prov["r1"].pc = "done"
    /\ prov["r1"].err = "nil"
    /\ Provisions(cluster.dataStorageSpec)
    /\ Provisions(cluster.WALStorage)
    /\ DOMAIN cluster.TablespaceMounts = TablespaceNames
    /\ \A t \in TablespaceNames : Provisions(cluster.TablespaceMounts[t])
    /\ DOMAIN store =
           {pvcNamePrefix, pvcNamePrefix \o <<"-wal">>}
               \cup {GetTablespacePVCName(pvcNamePrefix, t) :
                        t \in TablespaceNames}

(***************************************************************************)
(* CreatePVC against CreateIfNotExists, under Spec                         *)
(***************************************************************************)
\* the two calls agree in what they do to the API and the store, and their
\* errors differ only when the create call reports "already exists"
SameEffect(a, b) ==
    /\ a.calls = b.calls
    /\ a.store = b.store
    /\ a.createErr = b.createErr
    /\ IF a.createErr = "AlreadyExists"
       THEN a.err = "AlreadyExists" /\ b.err = "nil"
       ELSE a.err = b.err

\* a second CreatePVC with the arguments of a first that created the claim
SecondCreatePVC ==
    /\ last.op = "CreatePVC"
    /\ Creating
    /\ last.before.same
    /\ last.before.err = "nil"

\* C19 as stated: for every spec, store and answer of the environment the
\* two calls return the same claim name and issue the same create calls,
\* and differ only in the error when the create call reports "already
\* exists"; a second CreatePVC with create/dynamic arguments fails.
C19_Original ==
    /\ \A env \in Envs :
           LET a == CreatePVC(store, args.spec, args.pvcName, env)
               b == CreateIfNotExists(store, args.spec, args.pvcName, env)
           IN  a.claimName = b.claimName /\ SameEffect(a, b)
    /\ SecondCreatePVC => last.err # "nil"

\* C19, amended: the two calls issue the same create calls and leave the
\* same store, and return the same claim name for "existing", "create" and
\* "dynamic"; for "" and "emptydir" CreatePVC returns the name it was given
\* and CreateIfNotExists the empty claim name.  Their errors differ only
\* when the create call reports "already exists", which CreatePVC returns
\* and CreateIfNotExists does not; a second CreatePVC with create/dynamic
\* arguments fails.
C19_CreatePVCAgainstEnsure ==
    /\ \A env \in Envs :
           LET a == CreatePVC(store, args.spec, args.pvcName, env)
               b == CreateIfNotExists(store, args.spec, args.pvcName, env)
           IN  /\ SameEffect(a, b)
               /\ IF args.spec.StorageType \in {"", "emptydir"}
                  THEN a.claimName = args.pvcName /\ b.claimName = << >>
                  ELSE a.claimName = b.claimName
    /\ SecondCreatePVC => last.err # "nil"

C19_Witness ==
    /\ SecondCreatePVC
    /\ last.before.created
    /\ last.present
    /\ last.err = "AlreadyExists"
    /\ CreateCalls(last.calls) = 1
    /\ \E env \in Envs :
           /\ CreatePVC(store, args.spec, args.pvcName, env).err
                  = "AlreadyExists"
           /\ CreateIfNotExists(store, args.spec, args.pvcName, env).err
                  = "nil"

(***************************************************************************)
(* Properties of main, under SpecMain                                      *)
(***************************************************************************)
\* the values strconv.ParseBool reads as true
TrueStrings == {"1", "t", "T", "TRUE", "true", "True"}

Supported ==
    environ.COMMAND \in
        {PgtaskBackrestStanzaCreate, PgtaskBackrestInfo, PgtaskBackrestBackup}

\* "pgbackrest <subcommand> <COMMAND_OPTS>"
BaseCommand ==
    "pgbackrest "
        \o (CASE environ.COMMAND = PgtaskBackrestStanzaCreate
                     -> "stanza-create"
               [] environ.COMMAND = PgtaskBackrestInfo -> "info"
               [] environ.COMMAND = PgtaskBackrestBackup -> "backup"
               [] OTHER -> "")
        \o " " \o environ.COMMAND_OPTS

ExpectedCommand ==
    IF environ.PGHA_PGBACKREST_LOCAL_S3_STORAGE \in TrueStrings
    THEN BaseCommand \o " && " \o BaseCommand \o " --repo-type=s3"
    ELSE IF environ.PGBACKREST_REPO_TYPE = "s3"
    THEN BaseCommand \o " --repo-type=s3"
    ELSE BaseCommand

Rejected ==
    \/ ~Supported
    \/ environ.NAMESPACE = ""
    \/ environ.COMMAND = ""
    \/ environ.PODNAME = ""

\* C20: main makes one exec call at most, for a supported COMMAND, and the
\* string it executes is "pgbackrest <subcommand> <COMMAND_OPTS>", followed
\* by "&&", the same again and "--repo-type=s3" when
\* PGHA_PGBACKREST_LOCAL_S3_STORAGE parses as true, and otherwise followed
\* by "--repo-type=s3" if and only if PGBACKREST_REPO_TYPE is "s3"; with an
\* unsupported COMMAND or an empty NAMESPACE, COMMAND or PODNAME it never
\* reaches the exec call and ends with exit status 2.
C20_CommandComposition ==
    /\ Len(run.execs) <= 1
    /\ \A i \in 1..Len(run.execs) :
           /\ ~Rejected
           /\ run.execs[i].stdin = ExpectedCommand
    /\ Rejected
           => /\ run.pc # "exec"
              /\ run.execs = << >>
              /\ run.exited => run.status = 2
    /\ (run.exited /\ run.execs = << >>) => run.status = 2

C20_Witness ==
    /\ run.exited
    /\ run.status = 0
    /\ environ.PGHA_PGBACKREST_LOCAL_S3_STORAGE = "1"
    /\ environ.PGBACKREST_REPO_TYPE = "posix"
    /\ Len(run.execs) = 1
    /\ run.execs[1].stdin =
           "pgbackrest backup --stanza=db && pgbackrest backup --stanza=db --repo-type=s3"

C20_WitnessRejected ==
    /\ run.exited
    /\ run.status = 2
    /\ ~run.panicked
    /\ environ.COMMAND = "restore"
    /\ environ.NAMESPACE # ""
    /\ environ.PODNAME # ""
    /\ run.execs = << >>

====
